---- MODULE Spec2Model ----
(***************************************************************************)
(* LegalBrief_AI backend: the document-to-memory pipeline (upload,         *)
(* background ingestion, vector store) and the read paths (query, graph,   *)
(* consolidation), as a state machine.                                     *)
(*                                                                         *)
(* Strings are modelled by what the code does with them:                   *)
(*   - a file name is a sequence of characters (endswith is a suffix test) *)
(*   - a page text is a slice [name, lo, hi, ws] of a named source string  *)
(*     (hi - lo characters, ws = whitespace only), so that splitting,      *)
(*     truncation and page attribution are computed, not assumed.          *)
(***************************************************************************)
EXTENDS Integers, Sequences, FiniteSets, TLC

VARIABLES
    collection,        \* the Qdrant collection "legal_memory": [exists, size, distance]
    points,            \* its points, in the store's scan order
    dir_exists,        \* whether the directory raw_documents exists
    files,             \* temporary files on disk: set of [path, pdf]
    queue,             \* background tasks scheduled and not yet started
    task,              \* the background task being run (or the last one run)
    resp,              \* outcome of the last request handler / constructor run
    next_uuid,         \* number of uuid4 values drawn so far for files and chunks
    model_configured,  \* llm_service.model is not None (GEMINI_API_KEY was set)
    log                \* lines written to the output of the server process

vars == <<collection, points, dir_exists, files, queue, task, resp, next_uuid,
          model_configured, log>>

----------------------------------------------------------------------------
(* Bounds of the model *)

MaxPages == 2          \* pages per PDF
MaxUploads == 2        \* accepted uploads per behaviour
MaxPoints == 6         \* points of a pre-populated store (read-path specifications)
MaxDated == 3          \* points of a pre-populated store with extracted dates

(* Program constants *)

chunk_size == 1000     \* RecursiveCharacterTextSplitter(chunk_size=1000)
chunk_overlap == 200   \* RecursiveCharacterTextSplitter(chunk_overlap=200)
VectorSize == 768      \* VectorParams(size=768), dimension of all-mpnet-base-v2
SearchLimit == 5       \* memory_service.search(query_vector, limit=5)
GraphLimit == 20       \* get_semantic_graph: limit = 20
ScrollLimit == 100     \* consolidate_memories: scroll(limit=100)

Min(a, b) == IF a < b THEN a ELSE b

----------------------------------------------------------------------------
(* Strings *)

\* A Python str that is a slice of a named source string.
Str(name, lo, hi, ws) == [name |-> name, lo |-> lo, hi |-> hi, ws |-> ws]

StrLen(s) == s.hi - s.lo

\* text[:n]
Prefix(s, n) == [s EXCEPT !.hi = Min(s.hi, s.lo + n)]

\* str.lower() on one character of the names used here
lower(ch) ==
    IF ch = "P" THEN "p" ELSE IF ch = "D" THEN "d" ELSE IF ch = "F" THEN "f" ELSE ch

\* endswith comparing without regard to case
endswith_nocase(s, suffix) ==
    /\ Len(s) >= Len(suffix)
    /\ [k \in 1..Len(suffix) |-> lower(s[Len(s) - Len(suffix) + k])] = suffix

\* filename.endswith(suffix), on character sequences (case-sensitive)
endswith(s, suffix) ==
    /\ Len(s) >= Len(suffix)
    /\ SubSeq(s, Len(s) - Len(suffix) + 1, Len(s)) = suffix

DotPdf == <<".", "p", "d", "f">>

----------------------------------------------------------------------------
(* PDF files, as pypdf presents them *)

\* One page: extract_text() either raises or returns a str (possibly "").
PageRaises == [raises |-> TRUE, text |-> Str("", 0, 0, FALSE)]
PageText(s) == [raises |-> FALSE, text |-> s]

PageOutcomes ==
    { PageRaises,
      PageText(Str("", 0, 0, FALSE)),          \* no extractable text
      PageText(Str("W", 0, 10, TRUE)),         \* whitespace only
      PageText(Str("T1", 0, 500, FALSE)),      \* shorter than chunk_size
      PageText(Str("T2", 0, 1500, FALSE)) }    \* longer than chunk_size

RECURSIVE SeqsUpTo(_, _)
SeqsUpTo(S, n) ==
    IF n = 0 THEN { <<>> }
    ELSE LET shorter == SeqsUpTo(S, n - 1)
         IN  shorter \cup { Append(q, x) : q \in shorter, x \in S }

\* A PDF: PdfReader(file_path) raises (readable = FALSE) or yields pages.
PDFs == [readable : BOOLEAN, pages : SeqsUpTo(PageOutcomes, MaxPages)]

----------------------------------------------------------------------------
(* JSON / Python values that metadata fields and model replies can hold *)

JStr(x) == [jt |-> "str", s |-> x]
JNum(x) == [jt |-> "num", s |-> x]

\* the value of one metadata field: a list of atoms, or a non-list value
JArr(items) == [jt |-> "arr", items |-> items]
JScalar(kind) == [jt |-> kind, items |-> <<>>]

\* a parsed document: an object with some of the keys dates/entities, or a
\* list, number or string at top level
JObj(keys, d, e) == [jt |-> "obj", keys |-> keys, dates |-> d, entities |-> e]
JTop(kind) == [jt |-> kind, keys |-> {}, dates |-> JArr(<<>>), entities |-> JArr(<<>>)]

----------------------------------------------------------------------------
(* IngestService *)

\* self.text_splitter.split_text(text): windows of at most chunk_size
\* characters, consecutive windows overlapping by chunk_overlap; nothing for
\* whitespace-only text.
RECURSIVE split_from(_, _)
split_from(s, lo) ==
    IF s.hi - lo <= chunk_size
    THEN << [s EXCEPT !.lo = lo] >>
    ELSE << [s EXCEPT !.lo = lo, !.hi = lo + chunk_size] >>
         \o split_from(s, lo + chunk_size - chunk_overlap)

split_text(s) ==
    IF s.ws \/ StrLen(s) = 0 THEN <<>> ELSE split_from(s, s.lo)

\* embedding_model.encode(text).tolist(): a vector of VectorSize floats that
\* is a function of the text.
encode(s) == [size |-> VectorSize, of |-> s]

\* extract_loop numbering the pages by their position among the pages kept
\* instead of their position in the PDF
RECURSIVE extract_loop_renumbered(_, _, _)
extract_loop_renumbered(pdf_pages, i, pages) ==
    IF i > Len(pdf_pages) THEN [raised |-> FALSE, pages |-> pages]
    ELSE IF pdf_pages[i].raises THEN [raised |-> TRUE, pages |-> pages]
    ELSE IF StrLen(pdf_pages[i].text) > 0
         THEN extract_loop_renumbered(pdf_pages, i + 1,
                  Append(pages, [text |-> pdf_pages[i].text,
                                 page_number |-> Len(pages) + 1]))
         ELSE extract_loop_renumbered(pdf_pages, i + 1, pages)

\* for i, page in enumerate(reader.pages): the pages appended before the
\* loop ends, and whether extract_text raised.
RECURSIVE extract_loop(_, _, _)
extract_loop(pdf_pages, i, pages) ==
    IF i > Len(pdf_pages) THEN [raised |-> FALSE, pages |-> pages]
    ELSE IF pdf_pages[i].raises THEN [raised |-> TRUE, pages |-> pages]
    ELSE IF StrLen(pdf_pages[i].text) > 0
         THEN extract_loop(pdf_pages, i + 1,
                  Append(pages, [text |-> pdf_pages[i].text, page_number |-> i]))
         ELSE extract_loop(pdf_pages, i + 1, pages)

\* The TextChunk objects of one page. chunk_id = str(uuid.uuid4()) is a fresh
\* value: the n-th draw made while processing the file whose own uuid is
\* file_path.uuid.
page_chunks(page, file_path, filename, drawn) ==
    LET texts == split_text(page.text)
    IN  [k \in 1..Len(texts) |->
            [text |-> texts[k],
             metadata |-> [source |-> file_path,
                           filename |-> filename,
                           page_number |-> page.page_number,
                           dates |-> JArr(<<>>),
                           entities |-> JArr(<<>>)],
             chunk_id |-> [doc |-> file_path.uuid, n |-> drawn + k],
             embedding |-> encode(texts[k])]]

\* for page in pages: ... chunks.append(TextChunk(...))
RECURSIVE chunk_loop(_, _, _, _, _)
chunk_loop(pages, j, file_path, filename, chunks) ==
    IF j > Len(pages) THEN chunks
    ELSE chunk_loop(pages, j + 1, file_path, filename,
             chunks \o page_chunks(pages[j], file_path, filename, Len(chunks)))

\* IngestService.process_pdf: [] when the reader or any page raises
\* (the try block spans the whole page loop), else the chunks page by page.
process_pdf(file_path, filename, pdf) ==
    LET ex == extract_loop(pdf.pages, 1, <<>>)
    IN  IF ~pdf.readable \/ ex.raised
        THEN <<>>
        ELSE chunk_loop(ex.pages, 1, file_path, filename, <<>>)

\* A line of output and the filenames it names
Line(line, names) == [line |-> line, names |-> names]

\* what process_pdf prints: "Error reading PDF {filename}: ..." in the
\* except branch, nothing otherwise
process_pdf_prints(filename, pdf) ==
    IF ~pdf.readable \/ extract_loop(pdf.pages, 1, <<>>).raised
    THEN <<Line("Error reading PDF", {filename})>>
    ELSE <<>>

----------------------------------------------------------------------------
(* LLMService *)

\* Tokens of a model reply: the code-fence markers (three backticks with and
\* without the json tag), whitespace, a JSON document,
\* or text that is no JSON.
Tok(t, v) == [t |-> t, v |-> v]
FenceJson == Tok("fence_json", JTop("none"))
Fence == Tok("fence", JTop("none"))
Space == Tok(" ", JTop("none"))
Junk == Tok("junk", JTop("none"))
Doc(v) == Tok("json", v)

\* str.replace(marker, ""): every occurrence of the marker removed
RECURSIVE replace(_, _)
replace(text, marker) ==
    IF text = <<>> THEN <<>>
    ELSE IF Head(text) = marker THEN replace(Tail(text), marker)
    ELSE <<Head(text)>> \o replace(Tail(text), marker)

\* str.strip(): leading and trailing whitespace removed
RECURSIVE lstrip(_)
lstrip(text) ==
    IF text # <<>> /\ Head(text) = Space THEN lstrip(Tail(text)) ELSE text

RECURSIVE rstrip(_)
rstrip(text) ==
    IF text # <<>> /\ text[Len(text)] = Space
    THEN rstrip(SubSeq(text, 1, Len(text) - 1)) ELSE text

strip(text) == rstrip(lstrip(text))

\* json.loads(content): the document if content is exactly one JSON
\* document, else JSONDecodeError
json_loads(content) ==
    IF Len(content) = 1 /\ content[1].t = "json"
    THEN [raised |-> FALSE, value |-> content[1].v]
    ELSE [raised |-> TRUE, value |-> JTop("none")]

EmptyMetadata == JObj({"dates", "entities"}, JArr(<<>>), JArr(<<>>))

\* What self.model.generate_content(prompt) does for one call: raises, or
\* returns a response whose .text is the given token sequence.
LLMRaises == [raises |-> TRUE, text |-> <<>>]
LLMReply(text) == [raises |-> FALSE, text |-> text]

\* LLMService.extract_metadata(text): the value returned (it never raises).
\* The prompt holds the first 2000 characters of text; reply is what the
\* model does with it.
extract_metadata(configured, text, reply) ==
    IF ~configured THEN EmptyMetadata
    ELSE IF reply.raises THEN EmptyMetadata
    ELSE LET content == strip(replace(replace(reply.text, FenceJson), Fence))
             parsed == json_loads(content)
         IN  IF parsed.raised THEN EmptyMetadata ELSE parsed.value

\* what LLMService() prints when GEMINI_API_KEY is not set
llm_init_prints(configured) ==
    IF configured THEN <<>> ELSE <<Line("Warning: GEMINI_API_KEY not set", {})>>

\* what extract_metadata prints: "LLM Extraction Error: ..." when the call to
\* the model or json.loads raised; the line does not name the document
extract_metadata_prints(configured, reply) ==
    IF ~configured THEN <<>>
    ELSE IF reply.raises THEN <<Line("LLM Extraction Error", {})>>
    ELSE IF json_loads(strip(replace(replace(reply.text, FenceJson), Fence))).raised
    THEN <<Line("LLM Extraction Error", {})>>
    ELSE <<>>

\* metadata.get(key, []) on the value extract_metadata returned: only a dict
\* has .get; a list, number or string raises AttributeError.
metadata_get(metadata, key) ==
    IF metadata.jt # "obj" THEN [raised |-> TRUE, value |-> JArr(<<>>)]
    ELSE IF key \notin metadata.keys THEN [raised |-> FALSE, value |-> JArr(<<>>)]
    ELSE [raised |-> FALSE,
          value |-> IF key = "dates" THEN metadata.dates ELSE metadata.entities]

----------------------------------------------------------------------------
(* MemoryService and the Qdrant client *)

NoCollection == [exists |-> FALSE, size |-> 0, distance |-> "none"]

\* _ensure_collection creating the collection without looking for it first
ensure_collection_always_creating(c) ==
    [collection |-> [exists |-> TRUE, size |-> VectorSize, distance |-> "Cosine"],
     create_called |-> TRUE, raised |-> c.exists]

\* MemoryService._ensure_collection against collection c: get_collection
\* raises only when the collection does not exist; anything it raises is
\* answered by create_collection(size=768, distance=COSINE). An existing
\* collection is taken as it is, whatever its vector size.
ensure_collection(c) ==
    IF c.exists
    THEN [collection |-> c, create_called |-> FALSE, raised |-> FALSE]
    ELSE [collection |-> [exists |-> TRUE, size |-> VectorSize, distance |-> "Cosine"],
          create_called |-> TRUE, raised |-> FALSE]

\* models.PointStruct(id=chunk.chunk_id, vector=chunk.embedding, payload=...)
PointStruct(chunk) ==
    [id |-> chunk.chunk_id,
     vector |-> chunk.embedding,
     payload |-> [text |-> chunk.text,
                  filename |-> chunk.metadata.filename,
                  page_number |-> chunk.metadata.page_number,
                  source |-> chunk.metadata.source,
                  dates |-> chunk.metadata.dates,
                  entities |-> chunk.metadata.entities]]

\* client.upsert of one point: the point with the same id is replaced in
\* place, a new id is added.
upsert_point(pts, p) ==
    IF \E k \in 1..Len(pts) : pts[k].id = p.id
    THEN [k \in 1..Len(pts) |-> IF pts[k].id = p.id THEN p ELSE pts[k]]
    ELSE Append(pts, p)

RECURSIVE upsert_all(_, _)
upsert_all(pts, new) ==
    IF new = <<>> THEN pts ELSE upsert_all(upsert_point(pts, Head(new)), Tail(new))

\* MemoryService.upsert_chunks(chunks) on collection c holding pts: one
\* client.upsert call with all points, and no call for an empty list. The
\* store refuses vectors whose size is not that of the collection.
upsert_chunks(c, pts, chunks) ==
    LET new == [k \in 1..Len(chunks) |-> PointStruct(chunks[k])]
    IN  IF new = <<>> THEN [points |-> pts, calls |-> 0, raised |-> FALSE]
        ELSE IF ~c.exists \/ \E k \in 1..Len(new) : new[k].vector.size # c.size
        THEN [points |-> pts, calls |-> 1, raised |-> TRUE]
        ELSE [points |-> upsert_all(pts, new), calls |-> 1, raised |-> FALSE]

\* Cosine similarity of two embeddings, scaled to 0..100: 100 for the same
\* text, higher for texts of the same source string than for unrelated ones.
cosine(v, w) ==
    IF v.of = w.of THEN 100
    ELSE IF v.of.name = w.of.name
    THEN LET lo == IF v.of.lo > w.of.lo THEN v.of.lo ELSE w.of.lo
             hi == Min(v.of.hi, w.of.hi)
         IN  IF hi > lo THEN 70 ELSE 40
    ELSE 10

ScoredPoint(p, qv) == [id |-> p.id, payload |-> p.payload, score |-> cosine(qv, p.vector)]

\* a scored point put into a list kept in descending order of score
RECURSIVE insert_by_score(_, _)
insert_by_score(sorted, sp) ==
    IF sorted = <<>> THEN <<sp>>
    ELSE IF Head(sorted).score >= sp.score
    THEN <<Head(sorted)>> \o insert_by_score(Tail(sorted), sp)
    ELSE <<sp>> \o sorted

RECURSIVE rank(_, _, _)
rank(pts, qv, sorted) ==
    IF pts = <<>> THEN sorted
    ELSE rank(Tail(pts), qv, insert_by_score(sorted, ScoredPoint(Head(pts), qv)))

\* MemoryService.search(query_vector, limit): client.search returns the limit
\* nearest points, highest score first.
search(pts, query_vector, limit) ==
    LET ranked == rank(pts, query_vector, <<>>)
    IN  SubSeq(ranked, 1, Min(limit, Len(ranked)))

\* client.scroll(collection_name, limit, with_payload=True): the first limit
\* points in the scan order of the store.
scroll(pts, limit) == SubSeq(pts, 1, Min(limit, Len(pts)))

----------------------------------------------------------------------------
(* Upload endpoint and background ingestion *)

NoPath == [uuid |-> 0, name |-> <<>>]
IdleTask == [pc |-> "idle", file_path |-> NoPath, filename |-> <<>>,
             chunks |-> <<>>, i |-> 0, upserts |-> 0]

\* process_upload_background catches nothing: an exception of one of its steps
\* leaves the task and the server writes its traceback, which shows the
\* exception and the lines of code, not the arguments of the task
Traceback == Line("Exception in ASGI application", {})
NoResp == [op |-> "none"]

\* A background task occupies the event loop from its start to its end: the
\* coroutines it awaits (process_pdf, extract_metadata, upsert_chunks) make
\* only blocking calls and never suspend.
Running == task.pc \in {"extract", "enrich", "upsert", "cleanup"}

\* MemoryService(): the constructor runs _ensure_collection on the store
\* the client is connected to (at import, and again at every restart).
MemoryService ==
    /\ ~Running
    /\ LET r == ensure_collection(collection)
       IN  /\ collection' = r.collection
           /\ resp' = [op |-> "ensure_collection", create_called |-> r.create_called,
                       raised |-> r.raised]
    /\ UNCHANGED <<points, dir_exists, files, queue, task, next_uuid,
                   model_configured, log>>

\* The content of the file at path (the task reads what the upload wrote).
pdf_at(path) == (CHOOSE f \in files : f.path = path).pdf

\* upload_document doing the processing inside the request: the answer
\* carries the number of chunks and the chunks are stored before it is sent
upload_document_inline(filename, pdf) ==
    /\ ~Running
    /\ IF ~endswith(filename, DotPdf)
       THEN /\ resp' = [op |-> "upload", filename |-> filename, status |-> 400,
                        num_chunks |-> 0, document_id |-> NoPath]
            /\ UNCHANGED <<collection, points, dir_exists, files, queue, task,
                           next_uuid, model_configured, log>>
       ELSE /\ next_uuid < MaxUploads
            /\ LET temp == [uuid |-> next_uuid + 1, name |-> filename]
                   chunks == process_pdf(temp, filename, pdf)
               IN  /\ dir_exists' = TRUE
                   /\ files' = files \cup { [path |-> temp, pdf |-> pdf] }
                   /\ queue' = Append(queue, [file_path |-> temp, filename |-> filename])
                   /\ points' = upsert_chunks(collection, points, chunks).points
                   /\ resp' = [op |-> "upload", filename |-> filename, status |-> 200,
                               num_chunks |-> Len(chunks), document_id |-> temp]
            /\ next_uuid' = next_uuid + 1
            /\ UNCHANGED <<collection, task, model_configured, log>>

\* upload_document(background_tasks, file): file.filename = filename, the
\* bytes of the upload are the PDF pdf.
upload_document(filename, pdf) ==
    /\ ~Running
    /\ IF ~endswith(filename, DotPdf)
       THEN /\ resp' = [op |-> "upload", filename |-> filename, status |-> 400,
                        num_chunks |-> 0, document_id |-> NoPath]
            /\ UNCHANGED <<collection, points, dir_exists, files, queue, task,
                           next_uuid, model_configured, log>>
       ELSE /\ next_uuid < MaxUploads
            /\ LET temp == [uuid |-> next_uuid + 1, name |-> filename]
               IN  /\ dir_exists' = TRUE
                   /\ files' = files \cup { [path |-> temp, pdf |-> pdf] }
                   /\ queue' = Append(queue, [file_path |-> temp, filename |-> filename])
                   /\ resp' = [op |-> "upload", filename |-> filename, status |-> 200,
                               num_chunks |-> 0, document_id |-> temp]
            /\ next_uuid' = next_uuid + 1
            /\ UNCHANGED <<collection, points, task, model_configured, log>>

\* The server starts the next scheduled task: process_upload_background is
\* entered with the arguments given to add_task.
TaskStart ==
    /\ ~Running
    /\ queue # <<>>
    /\ task' = [pc |-> "extract", file_path |-> Head(queue).file_path,
                filename |-> Head(queue).filename, chunks |-> <<>>, i |-> 0,
                upserts |-> 0]
    /\ queue' = Tail(queue)
    /\ UNCHANGED <<collection, points, dir_exists, files, resp, next_uuid,
                   model_configured, log>>

\* step 1: chunks = await ingest_service.process_pdf(file_path, filename)
TaskExtract ==
    /\ task.pc = "extract"
    /\ LET chunks == process_pdf(task.file_path, task.filename, pdf_at(task.file_path))
       IN  task' = [task EXCEPT !.chunks = chunks, !.i = 1,
                                !.pc = IF chunks = <<>> THEN "upsert" ELSE "enrich"]
    /\ log' = log \o process_pdf_prints(task.filename, pdf_at(task.file_path))
    /\ UNCHANGED <<collection, points, dir_exists, files, queue, resp, next_uuid,
                   model_configured>>

\* One iteration of the loop of step 2 on a chunk, the model answering with
\* reply: the chunk with dates and entities set, or the AttributeError of
\* metadata.get on a value that is no dict.
enrich_chunk(configured, chunk, reply) ==
    LET metadata == extract_metadata(configured, chunk.text, reply)
        d == metadata_get(metadata, "dates")
        e == metadata_get(metadata, "entities")
    IN  IF d.raised \/ e.raised
        THEN [raised |-> TRUE, chunk |-> chunk]
        ELSE [raised |-> FALSE,
              chunk |-> [chunk EXCEPT !.metadata.dates = d.value,
                                      !.metadata.entities = e.value]]

\* step 2 writing each chunk to the store as soon as it is enriched
TaskEnrich_upserting(reply) ==
    /\ task.pc = "enrich"
    /\ LET r == enrich_chunk(model_configured, task.chunks[task.i], reply)
       IN  /\ task' = IF r.raised
                      THEN [task EXCEPT !.pc = "raised"]
                      ELSE [task EXCEPT !.chunks[task.i] = r.chunk,
                                        !.i = task.i + 1,
                                        !.pc = IF task.i = Len(task.chunks)
                                               THEN "upsert" ELSE "enrich"]
           /\ points' = IF r.raised THEN points
                        ELSE upsert_chunks(collection, points, <<r.chunk>>).points
           /\ log' = log \o extract_metadata_prints(model_configured, reply)
                         \o (IF r.raised THEN <<Traceback>> ELSE <<>>)
    /\ UNCHANGED <<collection, dir_exists, files, queue, resp, next_uuid,
                   model_configured>>

\* step 2, one chunk: metadata = await llm_service.extract_metadata(chunk.text)
TaskEnrich(reply) ==
    /\ task.pc = "enrich"
    /\ LET r == enrich_chunk(model_configured, task.chunks[task.i], reply)
       IN  /\ task' = IF r.raised
                      THEN [task EXCEPT !.pc = "raised"]
                      ELSE [task EXCEPT !.chunks[task.i] = r.chunk,
                                        !.i = task.i + 1,
                                        !.pc = IF task.i = Len(task.chunks)
                                               THEN "upsert" ELSE "enrich"]
           /\ log' = log \o extract_metadata_prints(model_configured, reply)
                         \o (IF r.raised THEN <<Traceback>> ELSE <<>>)
    /\ UNCHANGED <<collection, points, dir_exists, files, queue, resp, next_uuid,
                   model_configured>>

\* step 3: await memory_service.upsert_chunks(chunks)
TaskUpsert ==
    /\ task.pc = "upsert"
    /\ LET r == upsert_chunks(collection, points, task.chunks)
       IN  /\ points' = r.points
           /\ task' = [task EXCEPT !.pc = IF r.raised THEN "raised" ELSE "cleanup",
                                    !.upserts = task.upserts + r.calls]
           /\ log' = log \o (IF r.raised THEN <<Traceback>> ELSE <<>>)
    /\ UNCHANGED <<collection, dir_exists, files, queue, resp, next_uuid,
                   model_configured>>

\* step 4: if os.path.exists(file_path): os.remove(file_path)
TaskCleanup ==
    /\ task.pc = "cleanup"
    /\ files' = { f \in files : f.path # task.file_path }
    /\ task' = [task EXCEPT !.pc = "done"]
    /\ UNCHANGED <<collection, points, dir_exists, queue, resp, next_uuid,
                   model_configured, log>>

----------------------------------------------------------------------------
(* LLMService.synthesize_answer *)

\* Python str values of answers: sequences of pieces, + is concatenation
NotConfiguredAnswer == <<"LLM service not configured.">>
ErrorAnswer(e) == <<"Error generating answer: ", e>>

\* for chunk in response: full_response += chunk.text, where reading the
\* raise_at-th fragment raises (raise_at = -1: the stream ends normally).
RECURSIVE read_stream(_, _, _)
read_stream(llm, k, full_response) ==
    IF llm.raise_at = k THEN [raised |-> TRUE, value |-> full_response]
    ELSE IF k > Len(llm.frags) THEN [raised |-> FALSE, value |-> full_response]
    ELSE read_stream(llm, k + 1, full_response \o llm.frags[k])

\* synthesize_answer returning what was streamed before the failure
synthesize_answer_partial(configured, query, context_chunks, llm) ==
    IF ~configured THEN NotConfiguredAnswer
    ELSE IF llm.raise_at = 0 THEN ErrorAnswer(llm.error)
    ELSE read_stream(llm, 1, <<>>).value

\* LLMService.synthesize_answer(query, context_chunks), the model behaving
\* as llm: raise_at = 0 is generate_content raising, raise_at = k > 0 the
\* stream raising at its k-th fragment.
synthesize_answer(configured, query, context_chunks, llm) ==
    IF ~configured THEN NotConfiguredAnswer
    ELSE IF llm.raise_at = 0 THEN ErrorAnswer(llm.error)
    ELSE LET r == read_stream(llm, 1, <<>>)
         IN  IF r.raised THEN ErrorAnswer(llm.error) ELSE r.value

----------------------------------------------------------------------------
(* Query endpoints *)

\* sources.append({...}) for res in results, newest entry first
RECURSIVE citations_prepended(_)
citations_prepended(results) ==
    IF results = <<>> THEN <<>>
    ELSE citations_prepended(Tail(results))
         \o << [text |-> Head(results).payload.text,
                filename |-> Head(results).payload.filename,
                page_number |-> Head(results).payload.page_number,
                score |-> Head(results).score] >>

\* query_memory: sources.append({...}) for res in results
citations(results) ==
    [k \in 1..Len(results) |->
        [text |-> results[k].payload.text,
         filename |-> results[k].payload.filename,
         page_number |-> results[k].payload.page_number,
         score |-> results[k].score]]

\* query_memory: context_chunks.append(f"Source ({filename} p.{page}): {text}")
context_of(results) ==
    [k \in 1..Len(results) |->
        [source |-> results[k].payload.filename,
         p |-> results[k].payload.page_number,
         text |-> results[k].payload.text]]

\* query_memory(request) with request.query = query and request.synthesize
\* = synthesize, the language model behaving as llm
query_memory(query, synthesize, llm) ==
    /\ ~Running
    /\ LET query_vector == encode(query)
           results == search(points, query_vector, SearchLimit)
           sources == citations(results)
           context_chunks == context_of(results)
       IN  resp' = [op |-> "query", query |-> query, synthesize |-> synthesize,
                    llm |-> llm,
                    results |-> results, status |-> 200,
                    answer |-> IF synthesize
                               THEN synthesize_answer(model_configured, query,
                                                      context_chunks, llm)
                               ELSE <<>>,
                    sources |-> sources,
                    created_memory_id |-> synthesize]
    /\ UNCHANGED <<collection, points, dir_exists, files, queue, task, next_uuid,
                   model_configured, log>>

\* Python values used as keys of G.nodes: a node id, or the (id, data) tuple
\* that iterating G.nodes(data=True) yields
PyId(id) == [py |-> "id", id |-> id]
PyTuple(id, data) == [py |-> "tuple", id |-> id, data |-> data]

\* G.add_node(pid, label=..., text=...) for p in points: the node dict, in
\* insertion order, one entry per id (a repeated id updates its entry)
RECURSIVE add_nodes(_, _)
add_nodes(nodes, pts) ==
    IF pts = <<>> THEN nodes
    ELSE LET p == Head(pts)
             n == [id |-> p.id,
                   data |-> [label |-> p.payload.filename,
                             text |-> Prefix(p.payload.text, 50)]]
         IN  add_nodes(IF \E k \in 1..Len(nodes) : nodes[k].id = p.id
                       THEN [k \in 1..Len(nodes) |->
                                IF nodes[k].id = p.id THEN n ELSE nodes[k]]
                       ELSE Append(nodes, n),
                       Tail(pts))

\* G.add_edge(p1.id, p2.id) for every two sampled points with different ids
\* and the same filename: undirected edges
same_file_edges(pts) ==
    { {pts[e[1]].id, pts[e[2]].id} :
        e \in { e \in (1..Len(pts)) \X (1..Len(pts)) :
                  /\ pts[e[1]].id # pts[e[2]].id
                  /\ pts[e[1]].payload.filename = pts[e[2]].payload.filename } }

\* G.nodes[key]: the data of the node whose id is key; a key that is a tuple
\* holding a dict cannot be hashed and raises TypeError
nodes_getitem(nodes, key) ==
    IF key.py = "id" /\ \E k \in 1..Len(nodes) : nodes[k].id = key.id
    THEN [raised |-> FALSE,
          value |-> nodes[CHOOSE k \in 1..Len(nodes) : nodes[k].id = key.id].data]
    ELSE [raised |-> TRUE, value |-> [label |-> <<>>, text |-> Str("", 0, 0, FALSE)]]

\* for node in G.nodes(data=True): elements.append({"data": {"id": str(node),
\* "label": G.nodes[node]["label"]}}): node is the (id, data) tuple
node_elements(nodes) ==
    LET looked == [k \in 1..Len(nodes) |->
                      nodes_getitem(nodes, PyTuple(nodes[k].id, nodes[k].data))]
    IN  IF \E k \in 1..Len(nodes) : looked[k].raised
        THEN [raised |-> TRUE, elements |-> <<>>]
        ELSE [raised |-> FALSE,
              elements |-> [k \in 1..Len(nodes) |->
                               [kind |-> "node",
                                id |-> PyTuple(nodes[k].id, nodes[k].data),
                                label |-> looked[k].value.label]]]

\* get_semantic_graph(query): query = NoQuery when the parameter is absent
NoQuery == Str("", 0, 0, FALSE)

get_semantic_graph(query) ==
    /\ ~Running
    /\ LET sample == IF StrLen(query) > 0
                     THEN search(points, encode(query), GraphLimit)
                     ELSE scroll(points, GraphLimit)
           nodes == add_nodes(<<>>, sample)
           edges == same_file_edges(sample)
           listed == node_elements(nodes)
       IN  resp' = IF listed.raised
                   THEN [op |-> "graph", sample |-> sample, status |-> 500,
                         nodes |-> <<>>, edges |-> {}]
                   ELSE [op |-> "graph", sample |-> sample, status |-> 200,
                         nodes |-> listed.elements, edges |-> edges]
    /\ UNCHANGED <<collection, points, dir_exists, files, queue, task, next_uuid,
                   model_configured, log>>

----------------------------------------------------------------------------
(* Timeline endpoint *)

\* a str value stored in a metadata field: iterating it yields its
\* characters, each a str of length one
JText(chars) == [jt |-> "str", items |-> [k \in 1..Len(chars) |-> JStr(<<chars[k]>>)]]

\* code points of the characters that date strings are made of here
Code(ch) ==
    CASE ch = "-" -> 45
      [] ch = "0" -> 48 [] ch = "1" -> 49 [] ch = "2" -> 50 [] ch = "3" -> 51
      [] ch = "4" -> 52 [] ch = "5" -> 53 [] ch = "6" -> 54 [] ch = "7" -> 55
      [] ch = "8" -> 56 [] ch = "9" -> 57

\* s < t for two Python str, given as character sequences
RECURSIVE str_less(_, _)
str_less(s, t) ==
    IF t = <<>> THEN FALSE
    ELSE IF s = <<>> THEN TRUE
    ELSE IF Head(s) = Head(t) THEN str_less(Tail(s), Tail(t))
    ELSE Code(Head(s)) < Code(Head(t))

\* m < n for two non-negative integers, given by their decimal digits
num_less(m, n) ==
    \/ Len(m) < Len(n)
    \/ Len(m) = Len(n) /\ str_less(m, n)

\* x["date"] < y["date"] as list.sort evaluates it: str with str and number
\* with number compare, str with number raises TypeError
key_less(a, b) ==
    IF a.jt # b.jt THEN [raised |-> TRUE, value |-> FALSE]
    ELSE IF a.jt = "str" THEN [raised |-> FALSE, value |-> str_less(a.s, b.s)]
    ELSE [raised |-> FALSE, value |-> num_less(a.s, b.s)]

\* if dates: the truth value of what payload.get("dates", []) returned
truthy(v) ==
    CASE v.jt = "arr" -> v.items # <<>>
      [] v.jt = "str" -> v.items # <<>>
      [] v.jt = "num" -> TRUE
      [] OTHER -> FALSE

\* for date in dates: the values the loop runs over; a number is not
\* iterable and raises TypeError
iterate(v) ==
    IF v.jt \in {"arr", "str"}
    THEN [raised |-> FALSE, items |-> v.items]
    ELSE [raised |-> TRUE, items |-> <<>>]

\* the events appended for one scrolled point
events_of(res) ==
    LET dates == res.payload.dates
    IN  IF ~truthy(dates) THEN [raised |-> FALSE, events |-> <<>>]
        ELSE LET it == iterate(dates)
             IN  [raised |-> it.raised,
                  events |-> [k \in 1..Len(it.items) |->
                                 [date |-> it.items[k],
                                  event |-> [excerpt |-> Prefix(res.payload.text, 100),
                                             then |-> "..."],
                                  source |-> res.payload.filename,
                                  chunk_id |-> res.id]]]

RECURSIVE collect_events(_, _)
collect_events(results, timeline_events) ==
    IF results = <<>> THEN [raised |-> FALSE, events |-> timeline_events]
    ELSE LET e == events_of(Head(results))
         IN  IF e.raised THEN [raised |-> TRUE, events |-> timeline_events]
             ELSE collect_events(Tail(results), timeline_events \o e.events)

\* an event put into a list sorted by date, after the events that are not
\* greater (list.sort is stable)
RECURSIVE insert_by_date(_, _)
insert_by_date(sorted, ev) ==
    IF sorted = <<>> THEN <<ev>>
    ELSE IF key_less(ev.date, Head(sorted).date).value
    THEN <<ev>> \o sorted
    ELSE <<Head(sorted)>> \o insert_by_date(Tail(sorted), ev)

RECURSIVE sort_events(_, _)
sort_events(events, sorted) ==
    IF events = <<>> THEN sorted
    ELSE sort_events(Tail(events), insert_by_date(sorted, Head(events)))

\* timeline_events.sort(key=lambda x: x["date"]): a sort of two or more
\* events compares keys of every type present with each other, so keys of
\* two types raise TypeError
sort_by_date(events) ==
    IF \E a, b \in 1..Len(events) : key_less(events[a].date, events[b].date).raised
    THEN [raised |-> TRUE, events |-> <<>>]
    ELSE [raised |-> FALSE, events |-> sort_events(events, <<>>)]

\* get_timeline()
get_timeline ==
    /\ ~Running
    /\ LET results == scroll(points, ScrollLimit)
           collected == collect_events(results, <<>>)
           sorted == IF collected.raised THEN collected
                     ELSE sort_by_date(collected.events)
       IN  resp' = [op |-> "timeline", sample |-> results,
                    status |-> IF sorted.raised THEN 500 ELSE 200,
                    events |-> IF sorted.raised THEN <<>> ELSE sorted.events]
    /\ UNCHANGED <<collection, points, dir_exists, files, queue, task, next_uuid,
                   model_configured, log>>

----------------------------------------------------------------------------
(* Consolidation endpoint *)

\* groups[filename].append(text), each filename keeping its last text only
RECURSIVE group_by_filename_overwriting(_, _)
group_by_filename_overwriting(groups, pts) ==
    IF pts = <<>> THEN groups
    ELSE LET f == Head(pts).payload.filename
             t == Head(pts).payload.text
         IN  group_by_filename_overwriting(
                 IF \E g \in 1..Len(groups) : groups[g].filename = f
                 THEN [g \in 1..Len(groups) |->
                          IF groups[g].filename = f
                          THEN [groups[g] EXCEPT !.texts = <<t>>]
                          ELSE groups[g]]
                 ELSE Append(groups, [filename |-> f, texts |-> <<t>>]),
                 Tail(pts))

\* for p in points: groups[filename].append(p.payload["text"]): the dict
\* groups, in insertion order of its keys
RECURSIVE group_by_filename(_, _)
group_by_filename(groups, pts) ==
    IF pts = <<>> THEN groups
    ELSE LET f == Head(pts).payload.filename
             t == Head(pts).payload.text
         IN  group_by_filename(
                 IF \E g \in 1..Len(groups) : groups[g].filename = f
                 THEN [g \in 1..Len(groups) |->
                          IF groups[g].filename = f
                          THEN [groups[g] EXCEPT !.texts = Append(@, t)]
                          ELSE groups[g]]
                 ELSE Append(groups, [filename |-> f, texts |-> <<t>>]),
                 Tail(pts))

\* consolidate_memories(request): the threshold of the request is not read.
\* The uuid4 given to each group as its id is left out of the response.
consolidate_memories ==
    /\ ~Running
    /\ LET sample == scroll(points, ScrollLimit)
           groups == group_by_filename(<<>>, sample)
           consolidated == [g \in 1..Len(groups) |->
                               [summary |-> [chunks |-> Len(groups[g].texts),
                                             from |-> groups[g].filename],
                                member_count |-> Len(groups[g].texts),
                                source |-> groups[g].filename]]
       IN  resp' = [op |-> "consolidate", sample |-> sample, status |-> 200,
                    message |-> Len(consolidated),
                    consolidated_groups |-> consolidated]
    /\ UNCHANGED <<collection, points, dir_exists, files, queue, task, next_uuid,
                   model_configured, log>>

----------------------------------------------------------------------------
(* Inputs *)

FileA == <<"a", ".", "p", "d", "f">>
FileB == <<"b", ".", "p", "d", "f">>

\* names a client may send with an upload
Filenames ==
    { FileA, FileB,
      <<"a", ".", "P", "D", "F">>,
      <<"p", "d", "f">> }

\* PDFs uploaded in the ingestion specification
UploadPDFs ==
    { [readable |-> FALSE, pages |-> <<>>],
      [readable |-> TRUE, pages |-> <<PageText(Str("T1", 0, 500, FALSE))>>],
      [readable |-> TRUE, pages |-> <<PageText(Str("", 0, 0, FALSE)),
                                      PageText(Str("T2", 0, 1500, FALSE))>>] }

FullMetadata ==
    JObj({"dates", "entities"}, JArr(<<JStr("2024-01-15")>>), JArr(<<JStr("Acme Corp")>>))

\* what the language model may do when asked for the metadata of a chunk
EnrichReplies ==
    { LLMRaises,
      LLMReply(<<Junk>>),
      LLMReply(<<FenceJson, Space, Doc(FullMetadata), Space, Fence>>),
      LLMReply(<<Doc(JObj({"entities"}, JArr(<<>>), JArr(<<JStr("Beta LLC")>>)))>>),
      LLMReply(<<Doc(JTop("arr"))>>),
      LLMReply(<<Doc(JTop("num"))>>) }

----------------------------------------------------------------------------
(* The ingestion pipeline *)

\* The services are constructed: the collection exists as this program
\* creates it and is empty; no upload has been made.
Init ==
    /\ collection = ensure_collection(NoCollection).collection
    /\ points = <<>>
    /\ dir_exists \in BOOLEAN
    /\ files = {}
    /\ queue = <<>>
    /\ task = IdleTask
    /\ resp = NoResp
    /\ next_uuid = 0
    /\ model_configured \in BOOLEAN
    /\ log = llm_init_prints(model_configured)

Next ==
    \/ \E filename \in Filenames, pdf \in UploadPDFs : upload_document(filename, pdf)
    \/ TaskStart
    \/ TaskExtract
    \/ \E reply \in (IF model_configured THEN EnrichReplies ELSE {LLMRaises}) :
           TaskEnrich(reply)
    \/ TaskUpsert
    \/ TaskCleanup

Spec == Init /\ [][Next]_vars

----------------------------------------------------------------------------
(* process_pdf on every PDF of the bounds *)

InitPdf ==
    /\ collection = ensure_collection(NoCollection).collection
    /\ points = <<>>
    /\ dir_exists = TRUE
    /\ \E filename \in {FileA, FileB}, pdf \in PDFs :
          /\ files = { [path |-> [uuid |-> 1, name |-> filename], pdf |-> pdf] }
          /\ task = [pc |-> "extract", file_path |-> [uuid |-> 1, name |-> filename],
                     filename |-> filename, chunks |-> <<>>, i |-> 0,
                     upserts |-> 0]
    /\ queue = <<>>
    /\ resp = NoResp
    /\ next_uuid = 1
    /\ model_configured = FALSE
    /\ log = llm_init_prints(model_configured)

NextPdf == TaskExtract

SpecPdf == InitPdf /\ [][NextPdf]_vars

\* process_pdf has returned and nothing has been done to its result yet
Extracted == task.pc \in {"enrich", "upsert"} /\ task.i = 1

ThePdf == pdf_at(task.file_path)

\* C1: if extract_text raises for one page, only that page is skipped: the
\* chunks of every page whose text extracts are still returned.
C1_OnlyFailingPageSkipped ==
    (Extracted /\ ThePdf.readable) =>
        \A j \in 1..Len(ThePdf.pages) :
            ~ThePdf.pages[j].raises =>
                LET texts == split_text(ThePdf.pages[j].text)
                IN  \A t \in 1..Len(texts) :
                        \E k \in 1..Len(task.chunks) :
                            /\ task.chunks[k].metadata.page_number = j
                            /\ task.chunks[k].text = texts[t]

\* C7: every chunk carries the 1-based position of the page its text is a
\* slice of, also when earlier pages are omitted, and page numbers never
\* decrease along the chunk sequence.
C7_PageAttribution ==
    Extracted =>
        /\ \A k \in 1..Len(task.chunks) :
              LET c == task.chunks[k]
                  j == c.metadata.page_number
              IN  /\ j \in 1..Len(ThePdf.pages)
                  /\ ~ThePdf.pages[j].raises
                  /\ c.text.name = ThePdf.pages[j].text.name
                  /\ ThePdf.pages[j].text.lo <= c.text.lo
                  /\ c.text.lo < c.text.hi
                  /\ c.text.hi <= ThePdf.pages[j].text.hi
        /\ \A k \in 1..(Len(task.chunks) - 1) :
              task.chunks[k].metadata.page_number
                  <= task.chunks[k + 1].metadata.page_number

\* a later page is chunked after an earlier page gave no text
C7_Witness ==
    /\ Extracted
    /\ Len(task.chunks) = 2
    /\ task.chunks[1].metadata.page_number = 2
    /\ task.chunks[1].text # task.chunks[2].text

----------------------------------------------------------------------------
(* Claims about the ingestion pipeline *)

\* the enrichment loop of the running task raised
EnrichRaised == task.pc = "raised" /\ task.i <= Len(task.chunks)

\* C3: whatever the language model does for a chunk, metadata extraction
\* does not raise out of process_upload_background.
C3_EnrichmentNeverRaises == ~EnrichRaised

\* the name ends with the four characters . p d f
EndsInDotPdf(f) ==
    /\ Len(f) >= 4
    /\ f[Len(f) - 3] = "." /\ f[Len(f) - 2] = "p"
    /\ f[Len(f) - 1] = "d" /\ f[Len(f)] = "f"

\* C5: an upload whose filename does not end in .pdf is answered with an
\* error and changes nothing: no directory, no file, no scheduled task, no
\* change of the store.
C5_RejectedUploadHasNoEffect ==
    [][\A filename \in Filenames, pdf \in UploadPDFs :
          (~EndsInDotPdf(filename) /\ upload_document(filename, pdf)) =>
              /\ resp'.status = 400
              /\ UNCHANGED <<dir_exists, files, queue, task, points, collection,
                             next_uuid>>]_vars

\* an upload named a.PDF was refused while no directory or file existed
C5_Witness ==
    /\ resp.op = "upload"
    /\ resp.filename = <<"a", ".", "P", "D", "F">>
    /\ resp.status = 400
    /\ ~dir_exists /\ files = {} /\ queue = <<>>

----------------------------------------------------------------------------
(* The read paths, on every store of the bounds *)

\* chunks as ingestion stores them: file name, page text, page number
StoredKinds ==
    { [filename |-> FileA, text |-> Str("T1", 0, 500, FALSE), page_number |-> 1],
      [filename |-> FileB, text |-> Str("T3", 0, 300, FALSE), page_number |-> 2] }

\* the point stored for the single chunk of the k-th uploaded document
StoredPoint(k, kind) ==
    PointStruct(page_chunks([text |-> kind.text, page_number |-> kind.page_number],
                            [uuid |-> k, name |-> kind.filename],
                            kind.filename, 0)[1])

Stores ==
    { [k \in 1..Len(kinds) |-> StoredPoint(k, kinds[k])] :
        kinds \in SeqsUpTo(StoredKinds, MaxPoints) }

Queries == { Str("T1", 0, 500, FALSE), Str("Q", 0, 20, FALSE) }

\* what the language model may do when asked to answer: stream fragments to
\* the end, raise in generate_content, raise in the middle of the stream
Fragments == << <<"The agreement">>, <<" is dated", " 2024-01-15.">> >>

StreamBehaviours ==
    { [raise_at |-> -1, frags |-> Fragments, error |-> "none"],
      [raise_at |-> -1, frags |-> <<>>, error |-> "none"],
      [raise_at |-> 0, frags |-> Fragments, error |-> "503 unavailable"],
      [raise_at |-> 2, frags |-> Fragments, error |-> "connection reset"] }

InitRead ==
    /\ collection = ensure_collection(NoCollection).collection
    /\ points \in Stores
    /\ dir_exists = TRUE
    /\ files = {}
    /\ queue = <<>>
    /\ task = IdleTask
    /\ resp = NoResp
    /\ next_uuid = Len(points)
    /\ model_configured \in BOOLEAN
    /\ log = llm_init_prints(model_configured)

NextRead ==
    \/ \E query \in Queries, synthesize \in BOOLEAN,
          llm \in (IF model_configured THEN StreamBehaviours
                   ELSE { [raise_at |-> -1, frags |-> <<>>, error |-> "none"] }) :
           query_memory(query, synthesize, llm)
    \/ \E query \in Queries \cup {NoQuery} : get_semantic_graph(query)
    \/ consolidate_memories

SpecRead == InitRead /\ [][NextRead]_vars

----------------------------------------------------------------------------
(* Claims about the read paths *)

\* result k and source k carry the same text, filename, page and score
SameCitation(source, result) ==
    /\ source.text = result.payload.text
    /\ source.filename = result.payload.filename
    /\ source.page_number = result.payload.page_number
    /\ source.score = result.score

RECURSIVE Concat(_)
Concat(frags) == IF frags = <<>> THEN <<>> ELSE Head(frags) \o Concat(Tail(frags))

\* C4: with synthesize = true, whatever the language model does, the query
\* is answered (no error), the answer is the whole streamed text or an error
\* string and never a partial stream, and the sources are the citations of
\* the search results.
C4_SynthesisDegradesGracefully ==
    (resp.op = "query" /\ resp.synthesize) =>
        /\ resp.status = 200
        /\ resp.answer = IF ~model_configured THEN <<"LLM service not configured.">>
                         ELSE IF resp.llm.raise_at = -1 THEN Concat(resp.llm.frags)
                         ELSE <<"Error generating answer: ", resp.llm.error>>
        /\ Len(resp.sources) = Len(resp.results)
        /\ \A k \in 1..Len(resp.results) : SameCitation(resp.sources[k], resp.results[k])

\* the stream failed after its first fragment and citations were returned
C4_Witness ==
    /\ resp.op = "query" /\ resp.synthesize /\ model_configured
    /\ resp.llm.raise_at = 2
    /\ resp.answer[1] = "Error generating answer: "
    /\ Len(resp.sources) = SearchLimit

\* C6: for a sample of one or more points the graph request succeeds, with
\* one node element per distinct point and edges only between two distinct
\* points of the same file.
C6_GraphOfNonEmptySample ==
    (resp.op = "graph" /\ resp.sample # <<>>) =>
        /\ resp.status = 200
        /\ Len(resp.nodes) = Cardinality({ resp.sample[k].id : k \in 1..Len(resp.sample) })
        /\ \A e \in resp.edges :
              \E a, b \in 1..Len(resp.sample) :
                  /\ e = {resp.sample[a].id, resp.sample[b].id}
                  /\ resp.sample[a].id # resp.sample[b].id
                  /\ resp.sample[a].payload.filename = resp.sample[b].payload.filename

\* C8: the sources are the search results one-to-one and in order: as many
\* as there are results, at most SearchLimit and none on an empty index
\* (without error), source k carrying the fields of result k, the best
\* match first.
C8_SourcesFollowResults ==
    resp.op = "query" =>
        /\ resp.status = 200
        /\ Len(resp.sources) = Len(resp.results)
        /\ Len(resp.sources) = Min(SearchLimit, Len(points))
        /\ \A k \in 1..Len(resp.sources) :
              /\ SameCitation(resp.sources[k], resp.results[k])
              /\ \E p \in 1..Len(points) :
                    /\ points[p].id = resp.results[k].id
                    /\ points[p].payload = resp.results[k].payload
                    /\ resp.sources[k].score = cosine(encode(resp.query), points[p].vector)
        /\ \A k \in 1..(Len(resp.sources) - 1) :
              resp.sources[k].score >= resp.sources[k + 1].score
        /\ \A p \in 1..Len(points) :
              \/ \E k \in 1..Len(resp.results) : resp.results[k].id = points[p].id
              \/ cosine(encode(resp.query), points[p].vector)
                     <= resp.sources[Len(resp.sources)].score

\* more points than the limit are stored and the best is strictly better
\* than the last one returned
C8_Witness ==
    /\ resp.op = "query"
    /\ Len(points) > SearchLimit
    /\ Len(resp.sources) = SearchLimit
    /\ resp.sources[1].score > resp.sources[SearchLimit].score

RECURSIVE SumOfCounts(_)
SumOfCounts(groups) ==
    IF groups = <<>> THEN 0 ELSE Head(groups).member_count + SumOfCounts(Tail(groups))

\* the groups of the last consolidate response are those of its sample
GroupsMatchSample ==
    resp.op = "consolidate" =>
        LET groups == resp.consolidated_groups
            sample == resp.sample
        IN  /\ resp.status = 200
            /\ Len(sample) <= ScrollLimit
            /\ Len(sample) = Min(ScrollLimit, Len(points))
            /\ \A a, b \in 1..Len(groups) : groups[a].source = groups[b].source => a = b
            /\ { groups[g].source : g \in 1..Len(groups) }
                   = { sample[k].payload.filename : k \in 1..Len(sample) }
            /\ \A g \in 1..Len(groups) :
                  groups[g].member_count
                      = Cardinality({ k \in 1..Len(sample) :
                                        sample[k].payload.filename = groups[g].source })
            /\ SumOfCounts(groups) = Len(sample)

\* C9: consolidation returns one group per distinct filename of the sample,
\* each with the number of sampled points of that filename as member_count
\* (the counts sum to the sample size), and leaves the store as it was.
C9_ConsolidationIsAView ==
    [][consolidate_memories =>
          /\ UNCHANGED <<points, collection>>
          /\ GroupsMatchSample']_vars

\* two groups were returned, one of them with several members
C9_Witness ==
    /\ resp.op = "consolidate"
    /\ Len(resp.consolidated_groups) = 2
    /\ resp.consolidated_groups[1].member_count >= 2
    /\ resp.consolidated_groups[2].member_count >= 1

----------------------------------------------------------------------------
(* Construction of the memory service on every store of the bounds *)

\* collections a store may already hold under the name legal_memory
Collections ==
    {NoCollection} \cup
    [exists : {TRUE}, size : {384, VectorSize, 1536},
     distance : {"Cosine", "Dot", "Euclid"}]

\* the points of a collection have vectors of the size of the collection
Resized(pts, size) ==
    [k \in 1..Len(pts) |-> [pts[k] EXCEPT !.vector.size = size]]

InitStore ==
    /\ collection \in Collections
    /\ points \in IF collection.exists
                  THEN { Resized(pts, collection.size) : pts \in Stores }
                  ELSE { <<>> }
    /\ dir_exists = FALSE
    /\ files = {}
    /\ queue = <<>>
    /\ task = IdleTask
    /\ resp = NoResp
    /\ next_uuid = 0
    /\ model_configured = FALSE
    /\ log = llm_init_prints(model_configured)

NextStore == MemoryService

SpecStore == InitStore /\ [][NextStore]_vars

CorrectlyConfigured ==
    collection = [exists |-> TRUE, size |-> 768, distance |-> "Cosine"]

\* C2: run on a store whose collection exists with a vector size other than
\* the configured one, the constructor ends in a failure.
C2_DimensionMismatchFails ==
    (resp.op = "ensure_collection" /\ collection.exists /\ collection.size # 768)
        => resp.raised

\* C10: on a correctly configured store every run of _ensure_collection
\* returns normally, issues no create_collection and leaves the
\* configuration and the contents of the collection as they were.
C10_EnsureCollectionIdempotent ==
    [][(CorrectlyConfigured /\ MemoryService) =>
          /\ ~resp'.raised
          /\ ~resp'.create_called
          /\ UNCHANGED <<collection, points>>]_vars

\* the constructor has run on a correct collection that holds points
C10_Witness ==
    /\ resp.op = "ensure_collection"
    /\ CorrectlyConfigured
    /\ ~resp.raised /\ ~resp.create_called
    /\ Len(points) >= 2

----------------------------------------------------------------------------
(* The timeline, on stores whose dates the ingestion path has written *)

\* values a model reply may give under the key dates
DateValues ==
    { JArr(<<>>),
      JArr(<<JStr(<<"1", "0">>)>>),
      JArr(<<JStr(<<"9">>), JStr(<<"1", "0">>)>>),
      JArr(<<JNum(<<"2", "0", "2", "4">>)>>),
      JText(<<"2", "0">>),
      JScalar("num"),
      JScalar("null") }

\* the point process_upload_background stores for the single chunk of the
\* k-th uploaded document when the model reply gives dates as value
DatedPoint(k, dates) ==
    LET filename == IF k % 2 = 1 THEN FileA ELSE FileB
        chunk == page_chunks([text |-> Str("T1", 0, 500, FALSE), page_number |-> 1],
                             [uuid |-> k, name |-> filename], filename, 0)[1]
        reply == LLMReply(<<Doc(JObj({"dates", "entities"}, dates, JArr(<<>>)))>>)
    IN  PointStruct(enrich_chunk(TRUE, chunk, reply).chunk)

DatedStores ==
    { [k \in 1..Len(values) |-> DatedPoint(k, values[k])] :
        values \in SeqsUpTo(DateValues, MaxDated) }

InitTimeline ==
    /\ collection = ensure_collection(NoCollection).collection
    /\ points \in DatedStores
    /\ dir_exists = TRUE
    /\ files = {}
    /\ queue = <<>>
    /\ task = IdleTask
    /\ resp = NoResp
    /\ next_uuid = Len(points)
    /\ model_configured = TRUE
    /\ log = llm_init_prints(model_configured)

NextTimeline == get_timeline

SpecTimeline == InitTimeline /\ [][NextTimeline]_vars

\* the number of elements of the dates of the points of a sample (for a
\* date given as one string, its characters)
RECURSIVE ListedDates(_)
ListedDates(sample) ==
    IF sample = <<>> THEN 0
    ELSE Len(Head(sample).payload.dates.items) + ListedDates(Tail(sample))

\* C11: the timeline request succeeds for every dates content ingestion can
\* have stored, returns one event per element of the dates list of each
\* sampled point, with the filename and id of that point, and the events
\* are in non-decreasing lexical order of their date strings.
C11_TimelineOfStoredDates ==
    resp.op = "timeline" =>
        /\ resp.status = 200
        /\ Len(resp.sample) <= ScrollLimit
        /\ Len(resp.events) = ListedDates(resp.sample)
        /\ \A e \in 1..Len(resp.events) :
              \E k \in 1..Len(resp.sample) :
                  /\ resp.sample[k].id = resp.events[e].chunk_id
                  /\ resp.sample[k].payload.filename = resp.events[e].source
                  /\ \E d \in 1..Len(resp.sample[k].payload.dates.items) :
                        resp.sample[k].payload.dates.items[d] = resp.events[e].date
        /\ \A e \in 1..(Len(resp.events) - 1) :
              /\ resp.events[e].date.jt = "str"
              /\ resp.events[e + 1].date.jt = "str"
              /\ ~str_less(resp.events[e + 1].date.s, resp.events[e].date.s)

----------------------------------------------------------------------------
(* The background task from its start to its end *)

\* the temporary file of the task is on disk
TempFileExists == \E f \in files : f.path = task.file_path

\* the points of the store that belong to the document of the task
PointsOfTask == { k \in 1..Len(points) : points[k].id.doc = task.file_path.uuid }

\* every chunk of the task is in the store as upsert_chunks writes it
AllStored ==
    \A k \in 1..Len(task.chunks) :
        \E j \in 1..Len(points) : points[j] = PointStruct(task.chunks[k])

\* C12: every background task ends in one of two ways. Either all its steps
\* completed (extraction, enrichment of every chunk, upsert) and its
\* temporary file is gone, which includes a failed extraction that stores
\* nothing; or a step raised, and then the lines written by that step name
\* the file of the task. No completed task leaves its temporary file.
C12_TaskEndsProcessedOrLogged ==
    [][ /\ (task'.pc = "done" =>
               /\ task'.i = Len(task'.chunks) + 1
               /\ AllStored'
               /\ ~TempFileExists')
        /\ (task.pc # "raised" /\ task'.pc = "raised" =>
               \E k \in (Len(log) + 1)..Len(log') : task.filename \in log'[k].names)
      ]_vars

----------------------------------------------------------------------------
(* The answer of an accepted upload *)

\* the step is an accepted upload: only upload_document draws a file uuid
AcceptedUpload == next_uuid' = next_uuid + 1

\* C13: upload_document answers an accepted upload with num_chunks = 0 and
\* document_id = the temporary filename once the file is saved and the task
\* scheduled, and before anything is extracted, embedded, enriched or stored
\* for that document: the answer is fixed by the filename and the uuid alone,
\* whatever the PDF holds and whatever its processing will do.
C13_UploadAnswersBeforeProcessing ==
    [][ AcceptedUpload =>
          LET temp == [uuid |-> next_uuid', name |-> resp'.filename]
          IN  /\ resp' = [op |-> "upload", filename |-> resp'.filename, status |-> 200,
                          num_chunks |-> 0, document_id |-> temp]
              /\ \E f \in files' : f.path = temp
              /\ queue' = Append(queue, [file_path |-> temp, filename |-> resp'.filename])
              /\ points' = points /\ task' = task /\ log' = log
              /\ \A k \in 1..Len(points') : points'[k].id.doc # temp.uuid
              /\ task'.file_path # temp
      ]_vars

\* the answer to an accepted upload has been given while the document, a PDF
\* with text to extract, waits in the queue and none of it is in the store
C13_Witness ==
    /\ resp.op = "upload" /\ resp.status = 200 /\ resp.num_chunks = 0
    /\ queue # <<>>
    /\ queue[Len(queue)].file_path = resp.document_id
    /\ \E f \in files : /\ f.path = resp.document_id
                        /\ process_pdf(f.path, resp.filename, f.pdf) # <<>>
    /\ \A k \in 1..Len(points) : points[k].id.doc # resp.document_id.uuid
    /\ task.file_path # resp.document_id

----------------------------------------------------------------------------
(* The order of the steps of one ingestion *)

\* the steps follow one another: extraction, enrichment chunk by chunk,
\* upsert, removal of the file; a step that raises ends the task
StepOrder ==
    /\ (task.pc = "extract" => task'.pc \in {"enrich", "upsert"})
    /\ (task.pc = "enrich" =>
          \/ task'.pc = "raised"
          \/ task'.pc = "enrich" /\ task'.i = task.i + 1 /\ task.i < Len(task.chunks)
          \/ task'.pc = "upsert" /\ task.i = Len(task.chunks))
    /\ (task.pc = "upsert" => task'.pc \in {"cleanup", "raised"})
    /\ (task.pc = "cleanup" => task'.pc = "done")

\* what the store, the disk and the count of upsert calls are at each step
StoreAtEachStep ==
    /\ Cardinality(PointsOfTask) \in {0, Len(task.chunks)}
    /\ (PointsOfTask # {} => task.i = Len(task.chunks) + 1 /\ AllStored)
    /\ (task.pc \in {"extract", "enrich", "upsert"} =>
          PointsOfTask = {} /\ task.upserts = 0 /\ TempFileExists)
    /\ (task.pc = "raised" /\ task.i <= Len(task.chunks) =>
          PointsOfTask = {} /\ task.upserts = 0)
    /\ (task.pc \in {"cleanup", "done"} =>
          /\ task.i = Len(task.chunks) + 1
          /\ task.upserts = IF task.chunks = <<>> THEN 0 ELSE 1
          /\ AllStored
          /\ Cardinality(PointsOfTask) = Len(task.chunks))
    /\ (task.pc = "cleanup" => TempFileExists)
    /\ (task.pc = "done" => ~TempFileExists)

\* C14: within one ingestion the steps run in the order extract and embed all
\* pages, enrich every chunk, one upsert call with all chunks (none for zero
\* chunks), removal of the file. The store never holds a chunk of the
\* document whose enrichment was not attempted, holds none or all of its
\* chunks at every point, and holds none when a step before the upsert raised.
C14_StepsInOrderNoneOrAll == [][ StepOrder /\ StoreAtEachStep' ]_vars

\* a document of two chunks has been ingested to the end: both chunks were
\* written by one upsert call and the file is removed
C14_Witness ==
    /\ task.pc = "done"
    /\ Len(task.chunks) = 2
    /\ task.upserts = 1
    /\ AllStored
    /\ ~TempFileExists

====
